---- MODULE Spec2Model ----
(***************************************************************************)
(* Room state-synchronisation engine of the live map server                *)
(* (src/index.js): the room registry, the per-room state (map, tokens,     *)
(* effects, DM identity), the socket handlers that mutate it and the       *)
(* patches they emit.                                                      *)
(*                                                                         *)
(* One action models one socket handler run to completion.  Two handlers   *)
(* are split where the code itself is split:                               *)
(*   - dm:login is an async function: DmLogin is the part before the       *)
(*     awaited bcrypt.compare, DmLoginResume the part after it;            *)
(*   - the disconnect handler loops over the registry: Disconnect runs     *)
(*     the transport's bookkeeping and enters the loop, DisconnectStep is  *)
(*     one iteration.  No other handler runs while the loop is running.    *)
(*                                                                         *)
(* Not modelled: the HTTP upload endpoint, and the display fields of a     *)
(* token or map (name, imgUrl, color, url), which no handler reads back.   *)
(***************************************************************************)
EXTENDS Integers, Sequences, FiniteSets, TLC

\* ---------------------------------------------------------------- bounds
\* At most this many dm:login calls are suspended at bcrypt.compare at once.
MaxPending == 2
\* At most this many requests are processed in one behaviour.
MaxRequests == 4
\* makeRoomId is drawn at most this many times by one room:create.
MaxDraws == 2

\* ---------------------------------------------------------------- values
Null == "null"

\* socket.id of the connections
Conns == {"c1", "c2"}
\* room codes makeRoomId can draw
RoomCodes == {"R1", "R2"}
\* roomId fields a client sends: a code, a code in lower case, no code
RoomInputs == {"R1", "r2", ""}
\* ids token:addEnemy can generate (`enemy_${Date.now()}_${random}`)
EnemyIds == {"enemy_1", "enemy_2"}
\* ids effect:add can generate (`effect_${Date.now()}_${random}`)
EffectIds == {"effect_1"}
\* property names every plain object inherits from Object.prototype
ProtoKeys == {"constructor"}
\* id fields a client sends; "" stands for a missing id.  token:move reads
\* String(id || socket.id), so the sender's own id is the same request as "".
IdInputs == {""} \cup Conns \cup EnemyIds \cup ProtoKeys
\* DM_PASSWORD of the process environment: unset, or set
SecretInputs == {Null, "secret"}
\* password fields a client sends
PasswordInputs == {"secret", "guess"}

\* A value a client sends where a number is expected.
\* JSON carries numbers, strings, booleans and arrays: a number v, the text
\* "abc", the boolean true, the one-element array [v].
JsNumber(v) == [t |-> "number", v |-> v]
JsText == [t |-> "string", v |-> 0]
JsTrue == [t |-> "boolean", v |-> 1]
JsArray(v) == [t |-> "array", v |-> v]
\* (x, y) pairs sent with token:move and token:addEnemy
CoordInputs ==
  {<<JsNumber(-7), JsText>>, <<JsNumber(99999), JsNumber(300)>>,
   <<JsTrue, JsNumber(300)>>}
\* (width, height) pairs sent with map:set
SizeInputs ==
  {<<JsNumber(50), JsNumber(99999)>>, <<JsText, JsNumber(250)>>,
   <<JsArray(300), JsTrue>>}
\* sequences of codes makeRoomId returns to one room:create
RoomDraws ==
  UNION {[1..n -> RoomCodes] : n \in 1..MaxDraws}
\* an (x, y) pair 200 + Math.random() * 200 can give (integer part)
SpawnInputs == {<<310, 399>>}
\* visibility fields sent with event:attack
VisibilityInputs == {"DM", "ALL"}

EmptyMap == [k \in {} |-> Null]

Min(a, b) == IF a < b THEN a ELSE b
Max(a, b) == IF a > b THEN a ELSE b

\* ------------------------------------------------------------- variables
VARIABLES
  DM_PASSWORD,  \* process.env.DM_PASSWORD
  sockets,      \* connection -> "open" | "closed"
  rooms,        \* the registry: room code -> Room
  order,        \* the registry's iteration order (insertion order of the Map)
  members,      \* room code -> connections in the broadcast group of that code
  pending,      \* dm:login calls suspended at `await bcrypt.compare`
  cleanup,      \* position of the disconnect handler's loop
  requests,     \* number of requests processed so far
  acks,         \* acknowledgments (cb calls) of the last step
  emitted,      \* emissions of the last step, in order
  views         \* connection -> room code -> what that client holds of the room

vars == <<DM_PASSWORD, sockets, rooms, order, members, pending, cleanup,
          requests, acks, emitted, views>>

\* ------------------------------------------------------------- functions
\* String.prototype.toUpperCase on the room inputs
toUpperCase(s) ==
  CASE s = "r1" -> "R1"
    [] s = "r2" -> "R2"
    [] OTHER -> s

\* Number(n): a number, or NaN.  Number(true) is 1, Number([v]) is v.
NaN == [nan |-> TRUE, v |-> 0]
Number(n) ==
  IF n.t \in {"number", "boolean", "array"}
  THEN [nan |-> FALSE, v |-> n.v]
  ELSE NaN

\* clamp without the lower bound: Math.min(v, max) alone.
clampNoFloor(n, min, max) ==
  LET v == Number(n)
  IN  IF v.nan THEN min ELSE Min(v.v, max)

\* clamp without the upper bound: Math.max(min, v) alone.
clampNoCeiling(n, min, max) ==
  LET v == Number(n)
  IN  IF v.nan THEN min ELSE Max(min, v.v)

clamp(n, min, max) ==
  LET v == Number(n)
  IN  IF v.nan THEN min ELSE Max(min, Min(v.v, max))

makeInitialState ==
  [map |-> [width |-> 2000, height |-> 1400],
   tokens |-> EmptyMap,
   effects |-> EmptyMap,
   dmId |-> Null]

\* bcrypt.hashSync, and bcrypt.compare as its inverse test
hashSync(pw) ==
  CASE pw = "secret" -> "$2b$secret"
    [] pw = "guess" -> "$2b$guess"
    [] OTHER -> "$2b$"

\* A comparison that accepts every password.
compareAny(pw, hash) == TRUE

compare(pw, hash) == hashSync(pw) = hash

createDmPasswordHash ==
  IF DM_PASSWORD = Null THEN Null ELSE hashSync(DM_PASSWORD)

\* rooms.get(String(roomId || "").toUpperCase())
RoomKey(roomId) == toUpperCase(roomId)
HasRoom(roomId) == RoomKey(roomId) \in DOMAIN rooms

\* obj[key] on a plain object: own property, inherited property, undefined
Undefined == [id |-> Null, kind |-> "undefined", ownerId |-> Null, x |-> 0, y |-> 0]
Inherited == [id |-> Null, kind |-> "inherited", ownerId |-> Null, x |-> 0, y |-> 0]
Get(obj, key) ==
  IF key \in DOMAIN obj THEN obj[key]
  ELSE IF key \in ProtoKeys THEN Inherited
  ELSE Undefined
Truthy(v) == v.kind # "undefined"

\* obj[key] = value, and delete obj[key]
Put(obj, key, value) ==
  [k \in DOMAIN obj \cup {key} |-> IF k = key THEN value ELSE obj[k]]
Delete(obj, key) == [k \in DOMAIN obj \ {key} |-> obj[k]]

\* ------------------------------------------------------------- audiences
\* io.to(rid).emit / socket.to(rid).emit / socket.emit.  socket.to(rid) is the
\* group without the sender, whether or not the sender is in it.
IoTo(rid) == members[rid]
\* io.to(rid) used where socket.to(rid) is meant: the sender is not left out.
SocketToAll(c, rid) == members[rid] \cup {c}
SocketTo(c, rid) == members[rid] \ {c}
SocketEmit(c) == {c}

Patch(to, patch) == [to |-> to, event |-> "state:patch", patch |-> patch]
broadcastPatch(roomId, patch) == Patch(IoTo(roomId), patch)

Nack(c, op, error) == [conn |-> c, op |-> op, ok |-> FALSE, error |-> error]
Ack(c, op) == [conn |-> c, op |-> op, ok |-> TRUE, error |-> Null]

NoCleanup == [conn |-> Null, todo |-> <<>>]
Idle == cleanup = NoCleanup

\* ----------------------------------------------------------------- views
\* What goes over the wire is JSON: a RoomState as the clients receive it in
\* the acknowledgment of room:join, positions as JSON numbers.
ToWireToken(t) == [t EXCEPT !.x = JsNumber(t.x), !.y = JsNumber(t.y)]
ToWire(state) ==
  [state EXCEPT !.tokens = [k \in DOMAIN state.tokens |->
                              ToWireToken(state.tokens[k])]]

\* A client applying one state:patch to the view it holds of a room.
ApplyPatch(view, p) ==
  CASE p.type = "token:upsert" ->
         [view EXCEPT !.tokens = Put(@, p.token.id, ToWireToken(p.token))]
    [] p.type = "token:move" ->
         IF p.id \in DOMAIN view.tokens
         THEN [view EXCEPT !.tokens[p.id] =
                 [@ EXCEPT !.x = JsNumber(p.x), !.y = JsNumber(p.y)]]
         ELSE view
    [] p.type = "token:remove" -> [view EXCEPT !.tokens = Delete(@, p.id)]
    [] p.type = "room:dm" -> [view EXCEPT !.dmId = p.dmId]
    [] p.type = "map:set" -> [view EXCEPT !.map = p.map]
    [] p.type = "effect:upsert" ->
         [view EXCEPT !.effects = Put(@, p.effect.id, p.effect)]
    [] p.type = "effect:remove" -> [view EXCEPT !.effects = Delete(@, p.id)]
    [] OTHER -> view

\* A client applying its own self-move with the coordinates it sent.
ApplyOwnMove(view, c, xy) ==
  IF c \in DOMAIN view.tokens
  THEN [view EXCEPT !.tokens[c] = [@ EXCEPT !.x = xy[1], !.y = xy[2]]]
  ELSE view

RECURSIVE ApplyAll(_, _)
ApplyAll(view, patches) ==
  IF patches = <<>> THEN view
  ELSE ApplyAll(ApplyPatch(view, Head(patches)), Tail(patches))

\* The state:patch emissions of the step that reach connection c, in order.
RECURSIVE Delivered(_, _)
Delivered(c, es) ==
  IF es = <<>> THEN <<>>
  ELSE (IF Head(es).event = "state:patch" /\ c \in Head(es).to
        THEN <<Head(es).patch>> ELSE <<>>) \o Delivered(c, Tail(es))

\* The step, handling room rid, as the clients see it: a connection whose
\* room:join was acknowledged takes the snapshot of the acknowledgment, every
\* connection applies the patches that reach it, the connection `mover` whose
\* self-move was accepted applies the coordinates xy it sent, and a
\* connection that is closed holds nothing.
Observe(rid, mover, xy) ==
  LET joiner == IF /\ acks' # <<>>
                   /\ acks'[1].ok
                   /\ acks'[1].op = "room:join"
                THEN acks'[1].conn ELSE Null
  IN  IF emitted' = <<>> /\ joiner = Null /\ mover = Null /\ sockets' = sockets
      THEN views' = views
      ELSE views' = [c \in Conns |->
        IF sockets'[c] = "closed" THEN EmptyMap
        ELSE
          LET base == IF c = joiner
                      THEN Put(views[c], rid, ToWire(acks'[1].state))
                      ELSE views[c]
          IN  IF rid \notin DOMAIN base THEN base
              ELSE LET seen == ApplyAll(base[rid], Delivered(c, emitted'))
                   IN  [base EXCEPT ![rid] =
                          IF c = mover THEN ApplyOwnMove(seen, c, xy)
                          ELSE seen]]

\* A request from connection c is being handled.
Request(c) ==
  /\ Idle
  /\ sockets[c] = "open"
  /\ requests < MaxRequests
  /\ requests' = requests + 1

\* A handler that tells the room of the failure.
RejectAloud(c, op, error) ==
  /\ acks' = <<Nack(c, op, error)>>
  /\ emitted' = <<[to |-> UNION {members[r] : r \in RoomCodes},
                   event |-> "error", patch |-> [type |-> error]]>>
  /\ UNCHANGED <<rooms, order, members, pending>>

\* A handler that rejects: one negative acknowledgment and nothing else.
Reject(c, op, error) ==
  /\ acks' = <<Nack(c, op, error)>>
  /\ emitted' = <<>>
  /\ UNCHANGED <<rooms, order, members, pending>>

\* ------------------------------------------------------------------ init
\* The server is up and the connections have been accepted: io.on("connection")
\* registers the handlers of a socket and touches no room.
Init ==
  /\ DM_PASSWORD \in SecretInputs
  /\ sockets = [c \in Conns |-> "open"]
  /\ rooms = EmptyMap
  /\ order = <<>>
  /\ members = [r \in RoomCodes |-> {}]
  /\ pending = {}
  /\ cleanup = NoCleanup
  /\ requests = 0
  /\ acks = <<>>
  /\ emitted = <<>>
  /\ views = [c \in Conns |-> EmptyMap]

\* --------------------------------------------------------------- actions
\* No retry: the first draw is taken as it comes.
TakeFirstDraw(draws) == Len(draws) = 1

\* `while (rooms.has(roomId)) roomId = makeRoomId()`: every draw but the last
\* is taken, the last one is free.
Retried(draws) ==
  /\ \A i \in 1..(Len(draws) - 1) : draws[i] \in DOMAIN rooms
  /\ draws[Len(draws)] \notin DOMAIN rooms

\* room:create
RoomCreate(c, draws) ==
  /\ Request(c)
  /\ Retried(draws)
  /\ LET roomId == draws[Len(draws)]
     IN  /\ rooms' = Put(rooms, roomId,
                         [id |-> roomId,
                          state |-> makeInitialState,
                          dmId |-> Null,
                          dmPasswordHash |-> createDmPasswordHash])
         /\ order' = Append(order, roomId)
         /\ acks' = <<[conn |-> c, op |-> "room:create", ok |-> TRUE,
                       error |-> Null, roomId |-> roomId]>>
  /\ emitted' = <<>>
  /\ UNCHANGED <<DM_PASSWORD, sockets, members, pending, cleanup, views>>

\* A token keyed by a counter instead of the socket id.
PlayerTokenOwnerless(c, spawn) ==
  [id |-> c, kind |-> "player", ownerId |-> Null, x |-> spawn[1], y |-> spawn[2]]

\* The player token room:join builds for the caller.
PlayerToken(c, spawn) ==
  [id |-> c, kind |-> "player", ownerId |-> c, x |-> spawn[1], y |-> spawn[2]]

\* room:join
RoomJoin(c, roomId, spawn) ==
  /\ Request(c)
  /\ UNCHANGED <<DM_PASSWORD, sockets, cleanup>>
  /\ IF ~HasRoom(roomId) THEN Reject(c, "room:join", "ROOM_NOT_FOUND")
     ELSE
       LET rid == RoomKey(roomId)
           room == rooms[rid]
           token == PlayerToken(c, spawn)
           state == [room.state EXCEPT !.tokens = Put(@, token.id, token)]
       IN  /\ members' = [members EXCEPT ![rid] = @ \cup {c}]
           /\ rooms' = [rooms EXCEPT ![rid].state = state]
           /\ acks' = <<[conn |-> c, op |-> "room:join", ok |-> TRUE,
                         error |-> Null, state |-> state]>>
           /\ emitted' =
                <<Patch(SocketTo(c, rid),
                        [type |-> "token:upsert", token |-> token]),
                  Patch(SocketEmit(c), [type |-> "room:dm", dmId |-> room.dmId])>>
           /\ UNCHANGED <<order, pending>>
  /\ Observe(RoomKey(roomId), Null, <<>>)

\* A guard that lets anyone act while the room has no DM.
isDmOrVacant(room, c) == room.dmId = c \/ room.dmId = Null

\* The authority guard: `room.dmId !== socket.id` rejects.
isDm(room, c) == room.dmId = c

\* token:move
TokenMove(c, roomId, id, xy) ==
  /\ Request(c)
  /\ UNCHANGED <<DM_PASSWORD, sockets, cleanup>>
  /\ IF ~HasRoom(roomId) THEN Reject(c, "token:move", "ROOM_NOT_FOUND")
     ELSE
       LET rid == RoomKey(roomId)
           room == rooms[rid]
           targetId == IF id = "" THEN c ELSE id
           tOther == Get(room.state.tokens, targetId)
           t == Get(room.state.tokens, c)
           nx == clamp(xy[1], 0, room.state.map.width)
           ny == clamp(xy[2], 0, room.state.map.height)
       IN  IF targetId # c
           THEN IF ~isDm(room, c) THEN Reject(c, "token:move", "NOT_DM")
                ELSE IF ~Truthy(tOther)
                  THEN Reject(c, "token:move", "TOKEN_NOT_FOUND")
                ELSE IF tOther.kind # "enemy"
                  THEN Reject(c, "token:move", "ONLY_ENEMY_MOVABLE")
                ELSE
                  /\ rooms' = [rooms EXCEPT ![rid].state.tokens[targetId] =
                                 [@ EXCEPT !.x = nx, !.y = ny]]
                  /\ emitted' = <<Patch(IoTo(rid),
                                    [type |-> "token:move", id |-> targetId,
                                     x |-> nx, y |-> ny])>>
                  /\ acks' = <<Ack(c, "token:move")>>
                  /\ UNCHANGED <<order, members, pending>>
           ELSE IF ~Truthy(t) THEN Reject(c, "token:move", "TOKEN_NOT_FOUND")
                ELSE
                  /\ rooms' = [rooms EXCEPT ![rid].state.tokens[c] =
                                 [@ EXCEPT !.x = nx, !.y = ny]]
                  /\ emitted' = <<Patch(SocketTo(c, rid),
                                    [type |-> "token:move", id |-> c,
                                     x |-> nx, y |-> ny])>>
                  /\ acks' = <<Ack(c, "token:move")>>
                  /\ UNCHANGED <<order, members, pending>>
  /\ Observe(RoomKey(roomId), IF id = "" /\ acks'[1].ok THEN c ELSE Null, xy)

\* token:addEnemy.  id is the generated `enemy_${Date.now()}_${random}`.
TokenAddEnemy(c, roomId, xy, id) ==
  /\ Request(c)
  /\ UNCHANGED <<DM_PASSWORD, sockets, cleanup>>
  /\ IF ~HasRoom(roomId) THEN Reject(c, "token:addEnemy", "ROOM_NOT_FOUND")
     ELSE
       LET rid == RoomKey(roomId)
           room == rooms[rid]
           nx == clamp(xy[1], 0, room.state.map.width)
           ny == clamp(xy[2], 0, room.state.map.height)
           token == [id |-> id, kind |-> "enemy", ownerId |-> Null,
                     x |-> nx, y |-> ny]
       IN  IF ~isDm(room, c) THEN Reject(c, "token:addEnemy", "NOT_DM")
           ELSE
             /\ rooms' = [rooms EXCEPT ![rid].state.tokens = Put(@, id, token)]
             /\ emitted' = <<Patch(IoTo(rid),
                               [type |-> "token:upsert", token |-> token])>>
             /\ acks' = <<[conn |-> c, op |-> "token:addEnemy", ok |-> TRUE,
                           error |-> Null, token |-> token]>>
             /\ UNCHANGED <<order, members, pending>>
  /\ Observe(RoomKey(roomId), Null, <<>>)

\* token:remove
TokenRemove(c, roomId, id) ==
  /\ Request(c)
  /\ UNCHANGED <<DM_PASSWORD, sockets, cleanup>>
  /\ IF ~HasRoom(roomId) THEN Reject(c, "token:remove", "ROOM_NOT_FOUND")
     ELSE
       LET rid == RoomKey(roomId)
           room == rooms[rid]
       IN  IF ~isDm(room, c) THEN Reject(c, "token:remove", "NOT_DM")
           ELSE IF id = "" THEN Reject(c, "token:remove", "BAD_ID")
           ELSE IF ~Truthy(Get(room.state.tokens, id))
             THEN Reject(c, "token:remove", "TOKEN_NOT_FOUND")
           ELSE
             /\ rooms' = [rooms EXCEPT ![rid].state.tokens = Delete(@, id)]
             /\ emitted' = <<Patch(IoTo(rid),
                               [type |-> "token:remove", id |-> id])>>
             /\ acks' = <<Ack(c, "token:remove")>>
             /\ UNCHANGED <<order, members, pending>>
  /\ Observe(RoomKey(roomId), Null, <<>>)

\* A test that takes every room as configured.
ConfiguredAlways(room) == TRUE

\* `if (!room.dmPasswordHash)` rejects.
Configured(room) == room.dmPasswordHash # Null

\* dm:login up to `await bcrypt.compare(pw, room.dmPasswordHash)`
DmLogin(c, roomId, password) ==
  /\ Request(c)
  /\ UNCHANGED <<DM_PASSWORD, sockets, cleanup>>
  /\ IF ~HasRoom(roomId) THEN Reject(c, "dm:login", "ROOM_NOT_FOUND")
     ELSE IF ~Configured(rooms[RoomKey(roomId)])
       THEN Reject(c, "dm:login", "DM_PASSWORD_NOT_CONFIGURED")
     ELSE
       LET call == [conn |-> c, room |-> RoomKey(roomId), pw |-> password]
       IN  /\ call \notin pending
           /\ Cardinality(pending) < MaxPending
           /\ pending' = pending \cup {call}
           /\ acks' = <<>>
           /\ emitted' = <<>>
           /\ UNCHANGED <<rooms, order, members>>
  /\ Observe(RoomKey(roomId), Null, <<>>)

\* A login that forgets the copy in RoomState.
SetDmRoomOnly(room, c) == [room EXCEPT !.dmId = c]

\* The assignments of a successful dm:login.
SetDm(room, c) == [room EXCEPT !.dmId = c, !.state.dmId = c]

\* dm:login after the await: the verification has answered.
DmLoginResume(call) ==
  /\ Idle
  /\ call \in pending
  /\ pending' = pending \ {call}
  /\ UNCHANGED <<DM_PASSWORD, sockets, cleanup, requests, order, members>>
  /\ LET c == call.conn
         room == rooms[call.room]
     IN  IF ~compare(call.pw, room.dmPasswordHash)
         THEN /\ acks' = <<Nack(c, "dm:login", "WRONG_PASSWORD")>>
              /\ emitted' = <<>>
              /\ UNCHANGED rooms
         ELSE /\ rooms' = [rooms EXCEPT ![call.room] = SetDm(@, c)]
              /\ emitted' = <<broadcastPatch(room.id,
                                [type |-> "room:dm", dmId |-> c])>>
              /\ acks' = <<Ack(c, "dm:login")>>
  /\ Observe(call.room, Null, <<>>)

\* map:set
MapSet(c, roomId, size) ==
  /\ Request(c)
  /\ UNCHANGED <<DM_PASSWORD, sockets, cleanup>>
  /\ IF ~HasRoom(roomId) THEN Reject(c, "map:set", "ROOM_NOT_FOUND")
     ELSE
       LET rid == RoomKey(roomId)
           room == rooms[rid]
           w == clamp(size[1], 200, 20000)
           h == clamp(size[2], 200, 20000)
           map == [width |-> w, height |-> h]
       IN  IF ~isDm(room, c) THEN Reject(c, "map:set", "NOT_DM")
           ELSE
             /\ rooms' = [rooms EXCEPT ![rid].state.map = map]
             /\ emitted' = <<broadcastPatch(rid,
                               [type |-> "map:set", map |-> map])>>
             /\ acks' = <<Ack(c, "map:set")>>
             /\ UNCHANGED <<order, members, pending>>
  /\ Observe(RoomKey(roomId), Null, <<>>)

\* effect:add.  id is the generated `effect_${Date.now()}_${random}`.
EffectAdd(c, roomId, id) ==
  /\ Request(c)
  /\ UNCHANGED <<DM_PASSWORD, sockets, cleanup>>
  /\ IF ~HasRoom(roomId) THEN Reject(c, "effect:add", "ROOM_NOT_FOUND")
     ELSE
       LET rid == RoomKey(roomId)
           room == rooms[rid]
           e == [id |-> id, kind |-> "effect"]
       IN  IF ~isDm(room, c) THEN Reject(c, "effect:add", "NOT_DM")
           ELSE
             /\ rooms' = [rooms EXCEPT ![rid].state.effects = Put(@, id, e)]
             /\ emitted' = <<broadcastPatch(rid,
                               [type |-> "effect:upsert", effect |-> e])>>
             /\ acks' = <<[conn |-> c, op |-> "effect:add", ok |-> TRUE,
                           error |-> Null, effect |-> e]>>
             /\ UNCHANGED <<order, members, pending>>
  /\ Observe(RoomKey(roomId), Null, <<>>)

\* effect:remove
EffectRemove(c, roomId, id) ==
  /\ Request(c)
  /\ UNCHANGED <<DM_PASSWORD, sockets, cleanup>>
  /\ IF ~HasRoom(roomId) THEN Reject(c, "effect:remove", "ROOM_NOT_FOUND")
     ELSE
       LET rid == RoomKey(roomId)
           room == rooms[rid]
       IN  IF ~isDm(room, c) THEN Reject(c, "effect:remove", "NOT_DM")
           ELSE
             /\ IF Truthy(Get(room.state.effects, id))
                THEN /\ rooms' = [rooms EXCEPT ![rid].state.effects =
                                    Delete(@, id)]
                     /\ emitted' = <<broadcastPatch(rid,
                                       [type |-> "effect:remove", id |-> id])>>
                ELSE /\ emitted' = <<>>
                     /\ UNCHANGED rooms
             /\ acks' = <<Ack(c, "effect:remove")>>
             /\ UNCHANGED <<order, members, pending>>
  /\ Observe(RoomKey(roomId), Null, <<>>)

\* makeEvent: the payload stamped with an id and a time (not modelled).
makeEvent(payload) == payload

\* An audience that keeps events of visibility DM to the room's DM.
EventAudienceByVisibility(rid, ev) ==
  IF ev.visibility = "DM" THEN IoTo(rid) \cap {rooms[rid].dmId} ELSE IoTo(rid)

\* io.to(room.id) of an event: the whole group, whatever the visibility.
EventAudience(rid, ev) == IoTo(rid)

\* event:log and event:attack: io.to(room.id).emit("event:new", ev)
EventNew(c, op, roomId, payload) ==
  /\ Request(c)
  /\ UNCHANGED <<DM_PASSWORD, sockets, cleanup>>
  /\ IF ~HasRoom(roomId) THEN Reject(c, op, "ROOM_NOT_FOUND")
     ELSE
       LET rid == RoomKey(roomId)
           ev == makeEvent(payload)
       IN  /\ emitted' = <<[to |-> EventAudience(rid, ev), event |-> "event:new",
                            patch |-> ev]>>
           /\ acks' = <<[conn |-> c, op |-> op, ok |-> TRUE, error |-> Null,
                         event |-> ev]>>
           /\ UNCHANGED <<rooms, order, members, pending>>
  /\ Observe(RoomKey(roomId), Null, <<>>)

EventLog(c, roomId, visibility) ==
  EventNew(c, "event:log", roomId,
           [type |-> "log", visibility |-> visibility, by |-> c])

EventAttack(c, roomId, visibility) ==
  EventNew(c, "event:attack", roomId,
           [type |-> "attack",
            visibility |-> IF visibility = "DM" THEN "DM" ELSE "ALL",
            by |-> c])

\* The socket closes.  The transport takes it out of every broadcast group
\* before the disconnect handler runs; the handler then loops over the
\* registry in insertion order.
Disconnect(c) ==
  /\ Idle
  /\ sockets[c] = "open"
  /\ sockets' = [sockets EXCEPT ![c] = "closed"]
  /\ members' = [r \in RoomCodes |-> members[r] \ {c}]
  /\ cleanup' = IF order = <<>> THEN NoCleanup
                ELSE [conn |-> c, todo |-> order]
  /\ acks' = <<>>
  /\ emitted' = <<>>
  /\ UNCHANGED <<DM_PASSWORD, rooms, order, pending, requests>>
  /\ Observe(Null, Null, <<>>)

\* The assignments that clear the DM in the disconnect loop.
ClearDm(room) == [room EXCEPT !.dmId = Null, !.state.dmId = Null]

\* A cleanup that broadcasts token:remove and deletes nothing.
KeepOwnToken(room, c) == room

\* `delete room.state.tokens[socket.id]` in the disconnect loop.
RemoveOwnToken(room, c) == [room EXCEPT !.state.tokens = Delete(@, c)]

\* One iteration of `for (const room of rooms.values())` in the disconnect
\* handler.
DisconnectStep ==
  /\ ~Idle
  /\ LET c == cleanup.conn
         rid == Head(cleanup.todo)
         room == rooms[rid]
         hasToken == Truthy(Get(room.state.tokens, c))
         wasDm == room.dmId = c
         room1 == IF hasToken THEN RemoveOwnToken(room, c) ELSE room
         room2 == IF wasDm THEN ClearDm(room1) ELSE room1
     IN  /\ rooms' = [rooms EXCEPT ![rid] = room2]
         /\ emitted' =
              (IF hasToken
               THEN <<broadcastPatch(rid, [type |-> "token:remove", id |-> c])>>
               ELSE <<>>)
              \o (IF wasDm
                  THEN <<broadcastPatch(rid, [type |-> "room:dm", dmId |-> Null])>>
                  ELSE <<>>)
         /\ cleanup' = IF Tail(cleanup.todo) = <<>> THEN NoCleanup
                       ELSE [cleanup EXCEPT !.todo = Tail(@)]
  /\ acks' = <<>>
  /\ UNCHANGED <<DM_PASSWORD, sockets, order, members, pending, requests>>
  /\ Observe(Head(cleanup.todo), Null, <<>>)

Next ==
  \/ \E c \in Conns, d \in RoomDraws : RoomCreate(c, d)
  \/ \E c \in Conns, r \in RoomInputs, s \in SpawnInputs : RoomJoin(c, r, s)
  \/ \E c \in Conns :
       \E r \in RoomInputs, id \in IdInputs \ {c}, xy \in CoordInputs :
         TokenMove(c, r, id, xy)
  \/ \E c \in Conns, r \in RoomInputs, xy \in CoordInputs, id \in EnemyIds :
       TokenAddEnemy(c, r, xy, id)
  \/ \E c \in Conns, r \in RoomInputs, id \in IdInputs : TokenRemove(c, r, id)
  \/ \E c \in Conns, r \in RoomInputs, pw \in PasswordInputs : DmLogin(c, r, pw)
  \/ \E call \in pending : DmLoginResume(call)
  \/ \E c \in Conns, r \in RoomInputs, size \in SizeInputs : MapSet(c, r, size)
  \/ \E c \in Conns, r \in RoomInputs, id \in EffectIds : EffectAdd(c, r, id)
  \/ \E c \in Conns, r \in RoomInputs, id \in EffectIds \cup ProtoKeys :
       EffectRemove(c, r, id)
  \/ \E c \in Conns, r \in RoomInputs, v \in VisibilityInputs : EventLog(c, r, v)
  \/ \E c \in Conns, r \in RoomInputs, v \in VisibilityInputs : EventAttack(c, r, v)
  \/ \E c \in Conns : Disconnect(c)
  \/ DisconnectStep

Spec == Init /\ [][Next]_vars

\* ---------------------------------------------------------------- claims
\* The step just taken acknowledged a request of connection c.
Acked(c, op) ==
  /\ acks' # <<>>
  /\ acks'[1].conn = c
  /\ acks'[1].op = op

\* The connections the step just taken acknowledged.
AckedConns == {acks'[i].conn : i \in 1..Len(acks')}

\* The step just taken was refused with one of the errors, changed no room and
\* emitted nothing.
Refused(errors) ==
  /\ Len(acks') = 1
  /\ ~acks'[1].ok
  /\ acks'[1].error \in errors
  /\ rooms' = rooms
  /\ emitted' = <<>>

\* The step just taken handled a DM-restricted request of c naming room r:
\* addEnemy, remove, map:set, effect:add, effect:remove, or a move of a token
\* other than c's own.
DmRestricted(c, r) ==
  \/ /\ Acked(c, "token:addEnemy")
     /\ \E xy \in CoordInputs, id \in EnemyIds : TokenAddEnemy(c, r, xy, id)
  \/ /\ Acked(c, "token:remove")
     /\ \E id \in IdInputs : TokenRemove(c, r, id)
  \/ /\ Acked(c, "map:set")
     /\ \E size \in SizeInputs : MapSet(c, r, size)
  \/ /\ Acked(c, "effect:add")
     /\ \E id \in EffectIds : EffectAdd(c, r, id)
  \/ /\ Acked(c, "effect:remove")
     /\ \E id \in EffectIds \cup ProtoKeys : EffectRemove(c, r, id)
  \/ /\ Acked(c, "token:move")
     /\ \E id \in IdInputs \ {"", c}, xy \in CoordInputs : TokenMove(c, r, id, xy)

\* C1: in an existing room, every DM-restricted request of a connection that
\* is not the room's DM is refused with NOT_DM (or ONLY_ENEMY_MOVABLE); no
\* room changes and no patch is emitted.
C1_NonDmRefused ==
  [][\/ acks' = <<>>
     \/ Refused({"NOT_DM", "ONLY_ENEMY_MOVABLE"})
     \/ \A c \in AckedConns, r \in RoomInputs :
          ~(HasRoom(r) /\ rooms[RoomKey(r)].dmId # c /\ DmRestricted(c, r))]_vars

\* A joined player has just been refused a move of another token in a room
\* whose DM is someone else.
C1_Witness ==
  \E c \in Conns, r \in DOMAIN rooms :
    /\ acks = <<Nack(c, "token:move", "NOT_DM")>>
    /\ rooms[r].dmId \notin {Null, c}
    /\ c \in DOMAIN rooms[r].state.tokens

Position(t) == <<t.x, t.y>>

\* C2: a player token's position changes only through a token:move or a
\* room:join of the connection the token is named after, an enemy token's
\* position only through a token:move of the room's DM; a DM naming another
\* connection's player token gets ONLY_ENEMY_MOVABLE, a DM naming an absent
\* id gets TOKEN_NOT_FOUND, and neither changes a room.
C2_MoveAuthority ==
  [][/\ \A r \in DOMAIN rooms :
          \A k \in DOMAIN rooms[r].state.tokens \cap DOMAIN rooms'[r].state.tokens :
            LET old == rooms[r].state.tokens[k]
                new == rooms'[r].state.tokens[k]
            IN  Position(new) # Position(old) =>
                  IF old.kind = "player"
                  THEN acks' \in {<<Ack(k, "token:move")>>} \cup
                         {<<[conn |-> k, op |-> "room:join", ok |-> TRUE,
                             error |-> Null, state |-> rooms'[r].state]>>}
                  ELSE acks' = <<Ack(rooms[r].dmId, "token:move")>>
     /\ \A c \in AckedConns, r \in RoomInputs :
          \A id \in IdInputs \ {"", c}, xy \in CoordInputs :
            (/\ Acked(c, "token:move")
             /\ HasRoom(r)
             /\ rooms[RoomKey(r)].dmId = c
             /\ TokenMove(c, r, id, xy))
              => LET tokens == rooms[RoomKey(r)].state.tokens
                 IN  /\ id \notin DOMAIN tokens => Refused({"TOKEN_NOT_FOUND"})
                     /\ (id \in DOMAIN tokens /\ tokens[id].kind = "player")
                          => Refused({"ONLY_ENEMY_MOVABLE"})]_vars

\* "correct secret": the password is the configured DM_PASSWORD.
Correct(call) == DM_PASSWORD # Null /\ call.pw = DM_PASSWORD

\* C3: when a dm:login with the correct secret completes for c, both DM
\* fields of the room become c and room:dm {dmId: c} goes to the room's
\* group; a room's DM changes to a connection only this way, so the latest
\* completed login holds the authority; and a DM-restricted request succeeds
\* only for the connection that holds it.
C3_LoginTransfersDm ==
  [][/\ \A call \in pending :
          (Correct(call) /\ DmLoginResume(call))
            => /\ rooms'[call.room].dmId = call.conn
               /\ rooms'[call.room].state.dmId = call.conn
               /\ emitted' = <<Patch(members[call.room],
                                 [type |-> "room:dm", dmId |-> call.conn])>>
               /\ acks' = <<Ack(call.conn, "dm:login")>>
     /\ \A r \in DOMAIN rooms :
          (rooms'[r].dmId # rooms[r].dmId /\ rooms'[r].dmId # Null)
            => \E call \in pending \ pending' :
                 /\ call.room = r
                 /\ call.conn = rooms'[r].dmId
                 /\ Correct(call)
                 /\ acks' = <<Ack(call.conn, "dm:login")>>
     /\ \A c \in AckedConns, r \in RoomInputs :
          (Len(acks') = 1 /\ acks'[1].ok /\ HasRoom(r) /\ DmRestricted(c, r))
            => rooms[RoomKey(r)].dmId = c]_vars

\* A correct login of d has just completed in a room while a correct login of
\* another connection to the same room is still awaiting its verification.
C3_Witness ==
  \E r \in DOMAIN rooms, call \in pending :
    /\ acks = <<Ack(rooms[r].dmId, "dm:login")>>
    /\ call.room = r
    /\ call.conn # rooms[r].dmId
    /\ Correct(call)
    /\ emitted # <<>>
    /\ emitted[1].to # {}

\* C4: in every reachable state the two DM fields of every room agree.
C4_DmFieldsAgree ==
  \A r \in DOMAIN rooms : rooms[r].dmId = rooms[r].state.dmId

\* The disconnect loop has done its first of two rooms, the room still to do
\* has a DM, and a dm:login is awaiting its verification.
C4_Witness ==
  /\ Len(order) = 2
  /\ Len(cleanup.todo) = 1
  /\ rooms[cleanup.todo[1]].dmId # Null
  /\ pending # {}

\* The rooms the running disconnect loop has yet to visit.
Unvisited == {cleanup.todo[i] : i \in 1..Len(cleanup.todo)}

\* C5: a room's dmId is null or a connection that is in the room's group (it
\* joined the room and has not disconnected).  Rooms the disconnect loop has
\* yet to visit are left out: the loop is not observable half-way.
C5_DmIsJoined ==
  \A r \in DOMAIN rooms \ Unvisited :
    rooms[r].dmId = Null \/ rooms[r].dmId \in members[r]

\* The emissions of the step just taken that carry the patch.
Emissions(patch) == {i \in 1..Len(emitted') : emitted'[i].patch = patch}

\* C6: the disconnect handler visits every room of the registry; in a room
\* where the connection has a token the token is deleted and one
\* token:remove goes to the room's group, in a room whose DM it is both DM
\* fields become null and one room:dm {dmId: null} goes to the group, every
\* other room is left as it is with no patch; after the loop no room holds a
\* token of the connection.
C6_DisconnectCleanup ==
  /\ [][/\ \A c \in Conns :
             (sockets[c] = "open" /\ sockets'[c] = "closed")
               => /\ cleanup'.todo = order
                  /\ {order[i] : i \in 1..Len(order)} = DOMAIN rooms
                  /\ order # <<>> => cleanup'.conn = c
        /\ ~Idle =>
             LET c == cleanup.conn
                 rid == Head(cleanup.todo)
                 old == rooms[rid]
                 new == rooms'[rid]
                 had == c \in DOMAIN old.state.tokens
                 wasDm == old.dmId = c
                 removes == Emissions([type |-> "token:remove", id |-> c])
                 clears == Emissions([type |-> "room:dm", dmId |-> Null])
             IN  /\ cleanup'.todo = Tail(cleanup.todo)
                 /\ \A r \in DOMAIN rooms \ {rid} : rooms'[r] = rooms[r]
                 /\ \A i \in 1..Len(emitted') : emitted'[i].to = members[rid]
                 /\ Len(emitted') = Cardinality(removes) + Cardinality(clears)
                 /\ new.state.tokens = Delete(old.state.tokens, c)
                 /\ Cardinality(removes) = IF had THEN 1 ELSE 0
                 /\ Cardinality(clears) = IF wasDm THEN 1 ELSE 0
                 /\ new.dmId = IF wasDm THEN Null ELSE old.dmId
                 /\ new.state.dmId = IF wasDm THEN Null ELSE old.state.dmId
                 /\ (~had /\ ~wasDm) => new = old]_vars
  /\ [](\A c \in Conns :
          (sockets[c] = "closed" /\ cleanup.conn # c)
            => \A r \in DOMAIN rooms : c \notin DOMAIN rooms[r].state.tokens)

\* The loop has just cleaned a room where the connection was player and DM:
\* token:remove, then room:dm {dmId: null}, both to a group that is not empty.
C6_Witness ==
  \E c \in Conns :
    /\ sockets[c] = "closed"
    /\ Len(emitted) = 2
    /\ emitted[1].patch = [type |-> "token:remove", id |-> c]
    /\ emitted[2].patch = [type |-> "room:dm", dmId |-> Null]
    /\ emitted[1].to # {}

\* An accepted token:move of c on room input r that places token id (c's own
\* when id is c) at the coordinates xy, and an accepted token:addEnemy that
\* creates token id there.
MoveAccepted(c, r, id, xy) ==
  /\ TokenMove(c, r, IF id = c THEN "" ELSE id, xy)
  /\ acks'[1].ok
EnemyAccepted(c, r, id, xy) ==
  /\ TokenAddEnemy(c, r, xy, id)
  /\ acks'[1].ok

\* The stored and the broadcast coordinates of the token lie in the map the
\* room had when the request came, and the patch carries what is stored.
InMapOfRequest(r, id) ==
  LET map == rooms[RoomKey(r)].state.map
      t == rooms'[RoomKey(r)].state.tokens[id]
      p == emitted'[1].patch
  IN  /\ 0 <= t.x /\ t.x <= map.width
      /\ 0 <= t.y /\ t.y <= map.height
      /\ Len(emitted') = 1
      /\ IF p.type = "token:move"
         THEN p.id = id /\ p.x = t.x /\ p.y = t.y
         ELSE p.type = "token:upsert" /\ p.token = t

\* C7 as stated: a coordinate that is not a number is stored as 0.
C7_NonNumberIsZero ==
  [][\A c \in AckedConns, r \in RoomInputs :
       \A id \in IdInputs \ {""}, xy \in CoordInputs :
         (/\ acks'[1].ok
          /\ acks'[1].op \in {"token:move", "token:addEnemy"}
          /\ MoveAccepted(c, r, id, xy) \/ EnemyAccepted(c, r, id, xy))
           => LET t == rooms'[RoomKey(r)].state.tokens[id]
              IN  /\ InMapOfRequest(r, id)
                  /\ xy[1].t # "number" => t.x = 0
                  /\ xy[2].t # "number" => t.y = 0]_vars

\* C7: every accepted token:move and token:addEnemy stores and broadcasts
\* coordinates inside the map the room had at the request; a coordinate that
\* Number() turns into NaN is stored as 0 (a boolean is converted to its
\* number, true to 1, and clamped like a number); the request is accepted
\* with any other coordinates as well.
C7_Clamped ==
  [][\/ acks' = <<>>
     \/ ~acks'[1].ok
     \/ acks'[1].op \notin {"token:move", "token:addEnemy"}
     \/ \A c \in AckedConns, r \in RoomInputs :
          \A id \in IdInputs \ {""}, xy \in CoordInputs :
            (/\ HasRoom(r)
             /\ id \in DOMAIN rooms'[RoomKey(r)].state.tokens
             /\ MoveAccepted(c, r, id, xy) \/ EnemyAccepted(c, r, id, xy))
              => LET t == rooms'[RoomKey(r)].state.tokens[id]
                 IN  /\ InMapOfRequest(r, id)
                     /\ xy[1].t = "string" => t.x = 0
                     /\ xy[2].t = "string" => t.y = 0
                     /\ xy[1].t = "boolean" => t.x = 1
                     /\ \A other \in CoordInputs :
                          IF acks'[1].op = "token:move"
                          THEN ENABLED MoveAccepted(c, r, id, other)
                          ELSE ENABLED EnemyAccepted(c, r, id, other)]_vars

\* An enemy has just been added at the right edge of a map that is no longer
\* the initial one.
C7_Witness ==
  \E r \in DOMAIN rooms, id \in EnemyIds :
    /\ acks # <<>>
    /\ acks[1].op = "token:addEnemy"
    /\ acks[1].ok
    /\ acks[1].token.id = id
    /\ rooms[r].state.map.width # 2000
    /\ id \in DOMAIN rooms[r].state.tokens
    /\ rooms[r].state.tokens[id] = acks[1].token
    /\ rooms[r].state.tokens[id].x = rooms[r].state.map.width

InRange(map) ==
  /\ 200 <= map.width /\ map.width <= 20000
  /\ 200 <= map.height /\ map.height <= 20000

\* The step just taken was an accepted map:set of c on room input r with size.
Resized(c, r, size) ==
  /\ Acked(c, "map:set")
  /\ acks'[1].ok
  /\ MapSet(c, r, size)

\* The map of every room is in range, a new room has the 2000x1400 map, and
\* an accepted map:set broadcasts the map it stored.
MapsKept ==
  /\ \A r \in DOMAIN rooms' : InRange(rooms'[r].state.map)
  /\ \A r \in DOMAIN rooms' \ DOMAIN rooms :
       rooms'[r].state.map = [width |-> 2000, height |-> 1400]
  /\ \A c \in AckedConns, r \in RoomInputs, size \in SizeInputs :
       (acks'[1].op = "map:set" /\ Resized(c, r, size))
         => emitted' = <<Patch(members[RoomKey(r)],
                           [type |-> "map:set",
                            map |-> rooms'[RoomKey(r)].state.map])>>

\* C8 as stated: a width or height that is not a number becomes 200.
C8_NonNumberIsMin ==
  [][/\ MapsKept
     /\ \A c \in AckedConns, r \in RoomInputs, size \in SizeInputs :
          Resized(c, r, size)
            => LET map == rooms'[RoomKey(r)].state.map
               IN  /\ size[1].t # "number" => map.width = 200
                   /\ size[2].t # "number" => map.height = 200]_vars

\* C8: every room's map is within [200, 20000] in both dimensions, starting
\* at 2000x1400; map:set by the DM stores each dimension clamped (below 200
\* or NaN after Number() gives 200, above 20000 gives 20000, a number in
\* range is kept, a one-element array counts as its number) and broadcasts
\* map:set with the stored map.
C8_MapClamped ==
  [][/\ MapsKept
     /\ \A c \in AckedConns, r \in RoomInputs, size \in SizeInputs :
          (acks'[1].op = "map:set" /\ Resized(c, r, size))
            => LET map == rooms'[RoomKey(r)].state.map
                   Stored(v) ==
                     IF v.t = "string" THEN 200
                     ELSE IF v.v < 200 THEN 200
                     ELSE IF v.v > 20000 THEN 20000
                     ELSE v.v
               IN  /\ map.width = Stored(size[1])
                   /\ map.height = Stored(size[2])]_vars

\* A map:set has just stored the smallest width and the largest height.
C8_Witness ==
  \E r \in DOMAIN rooms :
    /\ acks # <<>>
    /\ acks[1].op = "map:set"
    /\ acks[1].ok
    /\ rooms[r].state.map = [width |-> 200, height |-> 20000]
    /\ emitted = <<Patch(members[r], [type |-> "map:set",
                                      map |-> rooms[r].state.map])>>

\* C9: an accepted room:join stores one player token for the caller under
\* the caller's id (replacing the one it had) and touches no other token, puts
\* the caller in the room's group, replies with the room's state that holds
\* the token, sends token:upsert to the group without the caller and room:dm
\* with the room's dmId to the caller alone.
C9_Join ==
  [][\A c \in AckedConns, r \in RoomInputs :
       (Acked(c, "room:join") /\ acks'[1].ok /\ HasRoom(r)
          /\ \E spawn \in SpawnInputs : RoomJoin(c, r, spawn))
         => LET rid == RoomKey(r)
                old == rooms[rid].state
                new == rooms'[rid].state
            IN  /\ DOMAIN new.tokens = DOMAIN old.tokens \cup {c}
                /\ \A k \in DOMAIN old.tokens \ {c} : new.tokens[k] = old.tokens[k]
                /\ new.tokens[c].id = c
                /\ new.tokens[c].ownerId = c
                /\ new.tokens[c].kind = "player"
                /\ [new EXCEPT !.tokens = old.tokens] = old
                /\ members'[rid] = members[rid] \cup {c}
                /\ acks'[1].state = new
                /\ emitted' =
                     <<Patch(members'[rid] \ {c},
                             [type |-> "token:upsert", token |-> new.tokens[c]]),
                       Patch({c}, [type |-> "room:dm", dmId |-> rooms[rid].dmId])>>]_vars

\* A connection has just joined a room that has another member and a DM.
C9_Witness ==
  \E c \in Conns, r \in DOMAIN rooms :
    /\ acks # <<>>
    /\ acks[1].op = "room:join"
    /\ acks[1].conn = c
    /\ acks[1].ok
    /\ acks[1].state = rooms[r].state
    /\ members[r] \ {c} # {}
    /\ rooms[r].dmId # Null
    /\ Len(emitted) = 2
    /\ emitted[2].patch.dmId = rooms[r].dmId

\* C10: every token is stored under its id; a player token is named after and
\* owned by a connection that is in the room's group (joined, not
\* disconnected); an enemy token has no owner and an id no connection has.
\* Rooms the disconnect loop has yet to visit are left out.
C10_TokenKeys ==
  \A r \in DOMAIN rooms :
    \A k \in DOMAIN rooms[r].state.tokens :
      LET t == rooms[r].state.tokens[k]
      IN  /\ t.id = k
          /\ t.kind \in {"player", "enemy"}
          /\ t.kind = "player" =>
               /\ t.ownerId = k
               /\ r \notin Unvisited => k \in members[r]
          /\ t.kind = "enemy" => (t.ownerId = Null /\ k \notin Conns)

\* A room holds a player token and an enemy token, and the disconnect loop of
\* a connection has run.
C10_Witness ==
  \E r \in DOMAIN rooms, c \in Conns, e \in EnemyIds :
    /\ Idle
    /\ sockets[c] = "closed"
    /\ e \in DOMAIN rooms[r].state.tokens
    /\ \E k \in Conns : k \in DOMAIN rooms[r].state.tokens

\* C11: room:create acknowledges a code that was not in the registry, adds
\* one room under it (initial map, no tokens, no effects, no DM) and leaves
\* every other room as it was; no other step adds or removes a room; the
\* codes of the registry are distinct and each room is stored under its id.
C11_CreateFresh ==
  [][/\ DOMAIN rooms \subseteq DOMAIN rooms'
     /\ \A c \in AckedConns :
          Acked(c, "room:create") =>
            LET id == acks'[1].roomId
            IN  /\ acks'[1].ok
                /\ id \notin DOMAIN rooms
                /\ DOMAIN rooms' = DOMAIN rooms \cup {id}
                /\ \A r \in DOMAIN rooms : rooms'[r] = rooms[r]
                /\ rooms'[id].id = id
                /\ rooms'[id].dmId = Null
                /\ rooms'[id].state =
                     [map |-> [width |-> 2000, height |-> 1400],
                      tokens |-> EmptyMap, effects |-> EmptyMap, dmId |-> Null]
                /\ order' = Append(order, id)
     /\ (acks' = <<>> \/ acks'[1].op # "room:create")
          => (DOMAIN rooms' = DOMAIN rooms /\ order' = order)
     /\ \A i, j \in 1..Len(order') : order'[i] = order'[j] => i = j
     /\ \A r \in DOMAIN rooms' : rooms'[r].id = r]_vars

\* A second room has just been created while the first one, no longer in its
\* initial state, holds the only other code makeRoomId can draw.
C11_Witness ==
  /\ Len(order) = 2
  /\ acks # <<>>
  /\ acks[1].op = "room:create"
  /\ acks[1].roomId = order[2]
  /\ rooms[order[1]].state.tokens # EmptyMap
  /\ rooms[order[2]].state = makeInitialState

\* C12: a room created while DM_PASSWORD is unset has no hash; every dm:login
\* on a room without a hash is refused with DM_PASSWORD_NOT_CONFIGURED before
\* the verification is awaited, changing nothing; such a room never has a DM,
\* an enemy token or an effect, and keeps the initial map.
C12_NoSecretNoDm ==
  /\ [](\A r \in DOMAIN rooms :
          /\ DM_PASSWORD = Null => rooms[r].dmPasswordHash = Null
          /\ rooms[r].dmPasswordHash = Null =>
               /\ rooms[r].dmId = Null
               /\ rooms[r].state.dmId = Null
               /\ \A k \in DOMAIN rooms[r].state.tokens :
                    rooms[r].state.tokens[k].kind # "enemy"
               /\ rooms[r].state.effects = EmptyMap
               /\ rooms[r].state.map = [width |-> 2000, height |-> 1400]
               /\ \A call \in pending : call.room # r)
  /\ [][\A c \in AckedConns, r \in RoomInputs :
         (/\ Acked(c, "dm:login")
          /\ HasRoom(r)
          /\ rooms[RoomKey(r)].dmPasswordHash = Null
          /\ \E pw \in PasswordInputs : DmLogin(c, r, pw))
           => /\ acks' = <<Nack(c, "dm:login", "DM_PASSWORD_NOT_CONFIGURED")>>
              /\ rooms' = rooms
              /\ pending' = pending
              /\ emitted' = <<>>]_vars

\* A member of a room without a hash has just been refused a dm:login, after
\* an earlier request of the room's members was refused as well.
C12_Witness ==
  \E c \in Conns, r \in DOMAIN rooms :
    /\ DM_PASSWORD = Null
    /\ acks = <<Nack(c, "dm:login", "DM_PASSWORD_NOT_CONFIGURED")>>
    /\ rooms[r].dmPasswordHash = Null
    /\ c \in DOMAIN rooms[r].state.tokens
    /\ requests = MaxRequests

\* C13: a step that acknowledges a request with ok:false leaves the registry,
\* every room and every broadcast group as they were and emits nothing, and
\* the error is one of the seven the handlers return.
C13_FailureChangesNothing ==
  [][\/ acks' = <<>>
     \/ acks'[1].ok
     \/ /\ Len(acks') = 1
        /\ acks'[1].error \in
             {"ROOM_NOT_FOUND", "NOT_DM", "TOKEN_NOT_FOUND", "ONLY_ENEMY_MOVABLE",
              "BAD_ID", "WRONG_PASSWORD", "DM_PASSWORD_NOT_CONFIGURED"}
        /\ rooms' = rooms
        /\ order' = order
        /\ members' = members
        /\ emitted' = <<>>
        /\ views' = views]_vars

\* A dm:login with a wrong password has just been refused in a room that has
\* a DM and a member.
C13_Witness ==
  \E c \in Conns, r \in DOMAIN rooms :
    /\ acks = <<Nack(c, "dm:login", "WRONG_PASSWORD")>>
    /\ rooms[r].dmId \notin {Null, c}
    /\ members[r] # {}

\* The step just taken was an accepted token:move of c on room input r: a
\* self-move, or a move of the enemy id by the DM.
SelfMoved(c, r) ==
  /\ Acked(c, "token:move")
  /\ acks'[1].ok
  /\ \E xy \in CoordInputs : TokenMove(c, r, "", xy)
EnemyMoved(c, r, id) ==
  /\ Acked(c, "token:move")
  /\ acks'[1].ok
  /\ \E xy \in CoordInputs : TokenMove(c, r, id, xy)

\* C14: an accepted self-move emits one token:move {id, x, y} with the stored
\* position to the room's group without the sender; an accepted enemy move by
\* the DM emits one token:move to the room's group, and the DM that sent it
\* is among the receivers.
C14_MoveAudience ==
  [][\A c \in AckedConns, r \in RoomInputs :
       LET rid == RoomKey(r)
           p == emitted'[1].patch
       IN  /\ SelfMoved(c, r) =>
                /\ Len(emitted') = 1
                /\ emitted'[1].to = members[rid] \ {c}
                /\ p = [type |-> "token:move", id |-> c,
                        x |-> rooms'[rid].state.tokens[c].x,
                        y |-> rooms'[rid].state.tokens[c].y]
           /\ \A id \in EnemyIds :
                EnemyMoved(c, r, id) =>
                  /\ Len(emitted') = 1
                  /\ emitted'[1].to = members[rid]
                  /\ p = [type |-> "token:move", id |-> id,
                          x |-> rooms'[rid].state.tokens[id].x,
                          y |-> rooms'[rid].state.tokens[id].y]
                  /\ c \in emitted'[1].to]_vars

\* C15: effect:remove by the room's DM is acknowledged with ok:true; an
\* effect stored under the id is deleted, with no such effect the effects
\* stay as they are; either way one effect:remove {id} goes to the room's
\* group and nothing else of the room changes.
C15_EffectRemove ==
  [][\A c \in AckedConns, r \in RoomInputs, id \in EffectIds \cup ProtoKeys :
       (/\ Acked(c, "effect:remove")
        /\ HasRoom(r)
        /\ rooms[RoomKey(r)].dmId = c
        /\ EffectRemove(c, r, id))
         => LET rid == RoomKey(r)
                old == rooms[rid].state.effects
            IN  /\ acks' = <<Ack(c, "effect:remove")>>
                /\ rooms' = [rooms EXCEPT ![rid].state.effects = Delete(old, id)]
                /\ emitted' = <<Patch(members[rid],
                                  [type |-> "effect:remove", id |-> id])>>]_vars

\* C16: token:remove by the room's DM deletes the token stored under the id,
\* enemy or player, and emits one token:remove {id} to the room's group; an
\* empty id is refused with BAD_ID and an id no token is stored under with
\* TOKEN_NOT_FOUND, nothing deleted or emitted; a connection with no token in
\* the room is refused its self-move with TOKEN_NOT_FOUND.
C16_TokenRemove ==
  [][\A c \in AckedConns, r \in RoomInputs :
       LET rid == RoomKey(r)
           old == rooms[rid].state.tokens
       IN  /\ \A id \in IdInputs :
                (/\ Acked(c, "token:remove")
                 /\ HasRoom(r)
                 /\ rooms[rid].dmId = c
                 /\ TokenRemove(c, r, id))
                  => IF id = "" THEN Refused({"BAD_ID"})
                     ELSE IF id \notin DOMAIN old THEN Refused({"TOKEN_NOT_FOUND"})
                     ELSE /\ acks' = <<Ack(c, "token:remove")>>
                          /\ rooms' = [rooms EXCEPT ![rid].state.tokens =
                                         Delete(old, id)]
                          /\ emitted' = <<Patch(members[rid],
                                            [type |-> "token:remove", id |-> id])>>
           /\ (/\ Acked(c, "token:move")
               /\ HasRoom(r)
               /\ c \notin DOMAIN old
               /\ \E xy \in CoordInputs : TokenMove(c, r, "", xy))
                => Refused({"TOKEN_NOT_FOUND"})]_vars

\* C17: event:log and event:attack on an existing room are accepted from any
\* open connection; they change no room, no group and no view, and emit one
\* event:new, stamped with the sender's id and carrying the visibility, to
\* the whole group of the room.
C17_EventsBroadcast ==
  /\ [](\A c \in Conns, r \in RoomInputs, v \in VisibilityInputs :
          (Idle /\ sockets[c] = "open" /\ requests < MaxRequests /\ HasRoom(r))
            => /\ ENABLED (EventLog(c, r, v) /\ acks'[1].ok)
               /\ ENABLED (EventAttack(c, r, v) /\ acks'[1].ok))
  /\ [][\A c \in AckedConns, r \in RoomInputs, v \in VisibilityInputs :
         (/\ acks'[1].op \in {"event:log", "event:attack"}
          /\ HasRoom(r)
          /\ EventLog(c, r, v) \/ EventAttack(c, r, v))
           => /\ acks'[1].ok
              /\ acks'[1].event.by = c
              /\ rooms' = rooms
              /\ members' = members
              /\ views' = views
              /\ emitted' = <<[to |-> members[RoomKey(r)], event |-> "event:new",
                               patch |-> acks'[1].event]>>
              /\ acks'[1].event.visibility = v]_vars

\* A connection that is not the DM has just sent an event of visibility DM
\* to a room that has a DM, and a member that is not the DM received it.
C17_Witness ==
  \E r \in DOMAIN rooms :
    /\ acks # <<>>
    /\ acks[1].op \in {"event:log", "event:attack"}
    /\ acks[1].ok
    /\ acks[1].event.visibility = "DM"
    /\ rooms[r].dmId \notin {Null, acks[1].conn}
    /\ Len(emitted) = 1
    /\ emitted[1].to = members[r]
    /\ emitted[1].to \ {rooms[r].dmId} # {}

\* C18: in every reachable state every token of every room, player or enemy,
\* lies inside the room's current map.
C18_TokensInMap ==
  \A r \in DOMAIN rooms :
    \A k \in DOMAIN rooms[r].state.tokens :
      LET t == rooms[r].state.tokens[k]
          map == rooms[r].state.map
      IN  /\ 0 <= t.x /\ t.x <= map.width
          /\ 0 <= t.y /\ t.y <= map.height

\* The disconnect handler of connection c has run to its end.
CleanedUp(c) == sockets[c] = "closed" /\ cleanup.conn # c

\* C19: in every reachable state neither DM field of a room names a
\* connection whose disconnect handler has run; so a dm:login that resumes
\* after its connection's disconnect does not make it DM.
C19_NoDmAfterDisconnect ==
  \A r \in DOMAIN rooms, c \in Conns :
    CleanedUp(c) => (rooms[r].dmId # c /\ rooms[r].state.dmId # c)

\* C20: in every reachable state the view a connected member holds of a room
\* it joined (the snapshot of its room:join, then the patches delivered to
\* it and its own self-moves as sent) is the server's state of the room.
C20_ViewsConverge ==
  \A c \in Conns :
    \A r \in DOMAIN views[c] :
      (sockets[c] = "open" /\ c \in members[r])
        => views[c][r] = ToWire(rooms[r].state)
====
